---- MODULE Spec2Model ----
(***************************************************************************)
(* Model of the comment-removal core of comment-remover (src/main.py):     *)
(* CommentRemoverLogic.patterns / extension_map, remove_comments and       *)
(* get_language_from_filename.                                             *)
(*                                                                         *)
(* A text is a sequence of one-character strings.  The regular expressions *)
(* of the pattern table are modelled by what re.sub does with them:        *)
(*   single_line  TOKEN.*$        -> the literal TOKEN                     *)
(*   multi_line   OPEN(.|\n)*?CLOSE alternatives, in the order of the      *)
(*                alternation      -> a sequence of [open, close] records  *)
(***************************************************************************)
EXTENDS Integers, Sequences, FiniteSets, TLC

VARIABLES code, language, filename, result, detected, pc

vars == <<code, language, filename, result, detected, pc>>

-----------------------------------------------------------------------------
(* Bounds of the model                                                     *)

\* longest input text, counted in pieces (a piece is a delimiter token or a
\* single character)
MaxPieces == 4

\* number of free characters placed around and inside two block comments
MaxExtra == 2

\* longest enumerated file name, in characters
MaxName == 4

-----------------------------------------------------------------------------
(* Text helpers                                                            *)

NL == "\n"

\* characters str.strip() removes (those that TLA+ strings can write)
Whitespace == {" ", "\t", "\n", "\r", "\f"}

\* s[p..] starts with tok
StartsWithAt(s, tok, p) ==
    /\ p >= 1
    /\ p + Len(tok) - 1 <= Len(s)
    /\ \A k \in 1..Len(tok) : s[p + k - 1] = tok[k]

\* positions at which tok occurs in s
Occurrences(s, tok) == {p \in 1..Len(s) : StartsWithAt(s, tok, p)}

Min(S) == CHOOSE m \in S : \A n \in S : m <= n
Max(S) == CHOOSE m \in S : \A n \in S : n <= m

RECURSIVE Flatten(_)
Flatten(ss) == IF ss = <<>> THEN <<>> ELSE Head(ss) \o Flatten(Tail(ss))

-----------------------------------------------------------------------------
(* CommentRemoverLogic.__init__ : the two tables                           *)

PY == "Python"
CFAM == "C/C++/Java/C#/JavaScript/Rust"
HTML == "HTML/XML"
SQL == "SQL"
LUA == "Lua"

Block(o, c) == [open |-> o, close |-> c]

patterns ==
    (PY   :> [single_line |-> <<"#">>,
              multi_line  |-> << Block(<<"\"", "\"", "\"">>, <<"\"", "\"", "\"">>),
                                 Block(<<"'", "'", "'">>, <<"'", "'", "'">>) >>])
 @@ (CFAM :> [single_line |-> <<"/", "/">>,
              multi_line  |-> << Block(<<"/", "*">>, <<"*", "/">>) >>])
 @@ (HTML :> [multi_line  |-> << Block(<<"<", "!", "-", "-">>, <<"-", "-", ">">>) >>])
 @@ (SQL  :> [single_line |-> <<"-", "-">>,
              multi_line  |-> << Block(<<"/", "*">>, <<"*", "/">>) >>])
 @@ (LUA  :> [single_line |-> <<"-", "-">>,
              multi_line  |-> << Block(<<"-", "-", "[", "[">>, <<"]", "]">>) >>])

extension_map ==
    (<<".", "p", "y">> :> PY) @@ (<<".", "p", "y", "w">> :> PY)
 @@ (<<".", "c">> :> CFAM) @@ (<<".", "c", "p", "p">> :> CFAM)
 @@ (<<".", "h">> :> CFAM) @@ (<<".", "h", "p", "p">> :> CFAM)
 @@ (<<".", "j", "a", "v", "a">> :> CFAM) @@ (<<".", "c", "s">> :> CFAM)
 @@ (<<".", "j", "s">> :> CFAM) @@ (<<".", "t", "s">> :> CFAM)
 @@ (<<".", "r", "s">> :> CFAM)
 @@ (<<".", "h", "t", "m", "l">> :> HTML) @@ (<<".", "h", "t", "m">> :> HTML)
 @@ (<<".", "x", "m", "l">> :> HTML)
 @@ (<<".", "s", "q", "l">> :> SQL)
 @@ (<<".", "l", "u", "a">> :> LUA)

-----------------------------------------------------------------------------
(* str.strip, str.split('\n'), '\n'.join                                    *)

RECURSIVE LStrip(_)
LStrip(s) ==
    IF s # <<>> /\ Head(s) \in Whitespace THEN LStrip(Tail(s)) ELSE s

RECURSIVE RStrip(_)
RStrip(s) ==
    IF s # <<>> /\ s[Len(s)] \in Whitespace
    THEN RStrip(SubSeq(s, 1, Len(s) - 1))
    ELSE s

StrStrip(s) == RStrip(LStrip(s))

\* s.split('\n'): always at least one element
RECURSIVE SplitLines(_)
SplitLines(s) ==
    LET nls == {p \in 1..Len(s) : s[p] = NL}
    IN  IF nls = {}
        THEN <<s>>
        ELSE LET p == Min(nls)
             IN  <<SubSeq(s, 1, p - 1)>> \o SplitLines(SubSeq(s, p + 1, Len(s)))

\* '\n'.join(lines)
RECURSIVE JoinLines(_)
JoinLines(lines) ==
    IF lines = <<>> THEN <<>>
    ELSE IF Len(lines) = 1 THEN lines[1]
    ELSE lines[1] \o <<NL>> \o JoinLines(Tail(lines))

-----------------------------------------------------------------------------
(* re.sub(patterns['multi_line'], '', text)                                *)

\* variant: a start token without end token matches up to the end of the text
AltMatchEndOpenEnded(s, alt, p) ==
    IF ~StartsWithAt(s, alt.open, p) THEN 0
    ELSE LET closes == {q \in (p + Len(alt.open))..Len(s) :
                            StartsWithAt(s, alt.close, q)}
         IN  IF closes = {} THEN Len(s) + 1 ELSE Min(closes) + Len(alt.close)

\* variant: a greedy body, (.|\n)* for (.|\n)*?, runs to the last end token
AltMatchEndGreedy(s, alt, p) ==
    IF ~StartsWithAt(s, alt.open, p) THEN 0
    ELSE LET closes == {q \in (p + Len(alt.open))..Len(s) :
                            StartsWithAt(s, alt.close, q)}
         IN  IF closes = {} THEN 0 ELSE Max(closes) + Len(alt.close)

\* end (exclusive) of the match of one alternative OPEN(.|\n)*?CLOSE tried at
\* position p, 0 when it does not match there: the lazy body stops at the
\* first CLOSE that starts at or after the end of OPEN
AltMatchEnd(s, alt, p) ==
    IF ~StartsWithAt(s, alt.open, p) THEN 0
    ELSE LET closes == {q \in (p + Len(alt.open))..Len(s) :
                            StartsWithAt(s, alt.close, q)}
         IN  IF closes = {} THEN 0 ELSE Min(closes) + Len(alt.close)

\* the alternatives are tried in order at one position; the first that
\* matches wins
RECURSIVE MatchEnd(_, _, _, _)
MatchEnd(s, alts, k, p) ==
    IF k > Len(alts) THEN 0
    ELSE LET e == AltMatchEnd(s, alts[k], p)
         IN  IF e # 0 THEN e ELSE MatchEnd(s, alts, k + 1, p)

\* re.sub scans left to right: the leftmost match is deleted and the scan
\* resumes right after it (matches never overlap and are never empty)
RECURSIVE MultiLineScan(_, _, _)
MultiLineScan(s, alts, p) ==
    IF p > Len(s) THEN <<>>
    ELSE LET e == MatchEnd(s, alts, 1, p)
         IN  IF e = 0
             THEN <<s[p]>> \o MultiLineScan(s, alts, p + 1)
             ELSE MultiLineScan(s, alts, e)

MultiLineSub(s, alts) == MultiLineScan(s, alts, 1)

-----------------------------------------------------------------------------
(* re.sub(patterns['single_line'], '', line) on one line of split('\n')     *)

\* variant: the whitespace in front of the comment is deleted with it
SingleLineSubTrimmed(line, tok) ==
    LET occ == Occurrences(line, tok)
    IN  IF occ = {} THEN line ELSE RStrip(SubSeq(line, 1, Min(occ) - 1))

\* variant: the match starts at the last token of the line, not the first
SingleLineSubLast(line, tok) ==
    LET occ == Occurrences(line, tok)
    IN  IF occ = {} THEN line ELSE SubSeq(line, 1, Max(occ) - 1)

\* TOKEN.*$ on a text without newline: the first TOKEN and all that follows
\* it is deleted (.* runs to the end of the line, where $ matches)
SingleLineSub(line, tok) ==
    LET occ == Occurrences(line, tok)
    IN  IF occ = {} THEN line ELSE SubSeq(line, 1, Min(occ) - 1)

\* variant: is_originally_empty is not consulted, blank lines are dropped too
RECURSIVE FilterLinesContentOnly(_, _)
FilterLinesContentOnly(lines, tok) ==
    IF lines = <<>> THEN <<>>
    ELSE LET cleaned_line == SingleLineSub(Head(lines), tok)
         IN  IF StrStrip(cleaned_line) # <<>>
             THEN <<cleaned_line>> \o FilterLinesContentOnly(Tail(lines), tok)
             ELSE FilterLinesContentOnly(Tail(lines), tok)

\* variant: every cleaned line is appended, also one emptied by its comment
RECURSIVE FilterLinesKeepAll(_, _)
FilterLinesKeepAll(lines, tok) ==
    IF lines = <<>> THEN <<>>
    ELSE <<SingleLineSub(Head(lines), tok)>> \o FilterLinesKeepAll(Tail(lines), tok)

\* the loop over the lines: a line is kept when what is left of it has
\* content, or when it was blank before the substitution
RECURSIVE FilterLines(_, _)
FilterLines(lines, tok) ==
    IF lines = <<>> THEN <<>>
    ELSE LET line == Head(lines)
             is_originally_empty == StrStrip(line) = <<>>
             cleaned_line == SingleLineSub(line, tok)
         IN  IF StrStrip(cleaned_line) # <<>> \/ is_originally_empty
             THEN <<cleaned_line>> \o FilterLines(Tail(lines), tok)
             ELSE FilterLines(Tail(lines), tok)

SingleLineStep(text, tok) == JoinLines(FilterLines(SplitLines(text), tok))

-----------------------------------------------------------------------------
(* re.sub(r'\n{3,}', '\n\n', text)                                          *)

\* length of the run of newlines that starts at p
RECURSIVE RunLength(_, _)
RunLength(s, p) ==
    IF p <= Len(s) /\ s[p] = NL THEN 1 + RunLength(s, p + 1) ELSE 0

RECURSIVE NewlineScan(_, _)
NewlineScan(s, p) ==
    IF p > Len(s) THEN <<>>
    ELSE LET n == RunLength(s, p)
         IN  IF n >= 3
             THEN <<NL, NL>> \o NewlineScan(s, p + n)
             ELSE <<s[p]>> \o NewlineScan(s, p + 1)

\* variant: \n{3} for \n{3,}, each three newlines become two
RECURSIVE NewlineScanThree(_, _)
NewlineScanThree(s, p) ==
    IF p > Len(s) THEN <<>>
    ELSE IF RunLength(s, p) >= 3
         THEN <<NL, NL>> \o NewlineScanThree(s, p + 3)
         ELSE <<s[p]>> \o NewlineScanThree(s, p + 1)

NewlineSubThree(s) == NewlineScanThree(s, 1)

NewlineSub(s) == NewlineScan(s, 1)

-----------------------------------------------------------------------------
(* CommentRemoverLogic.remove_comments                                     *)

\* if 'multi_line' in patterns: ...
MultiLineStep(text, lang) ==
    IF "multi_line" \in DOMAIN patterns[lang]
    THEN MultiLineSub(text, patterns[lang].multi_line)
    ELSE text

\* if 'single_line' in patterns: ...
LineStep(text, lang) ==
    IF "single_line" \in DOMAIN patterns[lang]
    THEN SingleLineStep(text, patterns[lang].single_line)
    ELSE text

\* the last two statements
Finish(text) == StrStrip(NewlineSub(text))

\* variant: an unknown identifier is processed with the default language
remove_comments_default(text, lang) ==
    IF lang \notin DOMAIN patterns
    THEN Finish(LineStep(MultiLineStep(text, PY), PY))
    ELSE Finish(LineStep(MultiLineStep(text, lang), lang))

\* variant: the single-line removal runs before the block removal
remove_comments_lines_first(text, lang) ==
    IF lang \notin DOMAIN patterns
    THEN text
    ELSE Finish(MultiLineStep(LineStep(text, lang), lang))

remove_comments(text, lang) ==
    IF lang \notin DOMAIN patterns
    THEN text
    ELSE Finish(LineStep(MultiLineStep(text, lang), lang))

-----------------------------------------------------------------------------
(* CommentRemoverLogic.get_language_from_filename                          *)

LowerChars == << "a", "b", "c", "d", "e", "f", "g", "h", "i", "j", "k", "l", "m",
                 "n", "o", "p", "q", "r", "s", "t", "u", "v", "w", "x", "y", "z" >>
UpperChars == << "A", "B", "C", "D", "E", "F", "G", "H", "I", "J", "K", "L", "M",
                 "N", "O", "P", "Q", "R", "S", "T", "U", "V", "W", "X", "Y", "Z" >>

\* str.lower()
LowerChar(c) ==
    IF \E i \in DOMAIN UpperChars : UpperChars[i] = c
    THEN LowerChars[CHOOSE i \in DOMAIN UpperChars : UpperChars[i] = c]
    ELSE c

Lower(s) == [i \in 1..Len(s) |-> LowerChar(s[i])]

\* os.path.splitext(p)[1]: the text from the last dot on, when that dot lies
\* after the last "/" and some character other than a dot stands between the
\* two; otherwise the empty text (rfind gives -1, here 0, when absent)
SplitExt(p) ==
    LET sepIndex == Max({0} \cup Occurrences(p, <<"/">>))
        dotIndex == Max({0} \cup Occurrences(p, <<".">>))
    IN  IF /\ dotIndex > sepIndex
           /\ \E filenameIndex \in (sepIndex + 1)..(dotIndex - 1) :
                  p[filenameIndex] # "."
        THEN SubSeq(p, dotIndex, Len(p))
        ELSE <<>>

\* variant: the extension is looked up as written, without lower()
get_language_case_sensitive(name) ==
    LET ext == SplitExt(name)
    IN  IF ext \in DOMAIN extension_map THEN extension_map[ext] ELSE PY

get_language_from_filename(name) ==
    LET ext == Lower(SplitExt(name))
    IN  IF ext \in DOMAIN extension_map THEN extension_map[ext] ELSE PY

-----------------------------------------------------------------------------
(* Inputs                                                                  *)

PythonScenario ==
    << "x", " ", "=", " ", "1", " ", " ", "#", " ", "s", "e", "t",
       " ", "x", NL, NL, NL, NL, "d", "e", "f", " ", "f", "(",
       ")", ":", NL, " ", " ", " ", " ", "p", "a", "s", "s", " ",
       " ", "#", " ", "n", "o", "o", "p", NL >>

PythonScenarioStated ==
    << "x", " ", "=", " ", "1", NL, NL, "d", "e", "f", " ", "f",
       "(", ")", ":", NL, " ", " ", " ", " ", "p", "a", "s", "s" >>

PythonScenarioActual ==
    << "x", " ", "=", " ", "1", " ", " ", NL, NL, "d", "e", "f",
       " ", "f", "(", ")", ":", NL, " ", " ", " ", " ", "p", "a",
       "s", "s" >>

CScenario ==
    << "i", "n", "t", " ", "x", " ", "=", " ", "1", ";", " ", "/",
       "/", " ", "c", "o", "m", "m", "e", "n", "t", NL, "/", "*",
       " ", "b", "l", "o", "c", "k", NL, "s", "p", "a", "n", "n",
       "i", "n", "g", " ", "l", "i", "n", "e", "s", " ", "*", "/",
       NL, "i", "n", "t", " ", "y", " ", "=", " ", "2", ";" >>

CScenarioStated ==
    << "i", "n", "t", " ", "x", " ", "=", " ", "1", ";", NL, NL,
       "i", "n", "t", " ", "y", " ", "=", " ", "2", ";" >>

CScenarioActual ==
    << "i", "n", "t", " ", "x", " ", "=", " ", "1", ";", " ", NL,
       NL, "i", "n", "t", " ", "y", " ", "=", " ", "2", ";" >>

HtmlScenario ==
    << "<", "d", "i", "v", ">", "<", "!", "-", "-", " ", "n", "o",
       "t", "e", " ", "-", "-", ">", NL, "<", "p", ">", "h", "i",
       "<", "/", "p", ">", "<", "/", "d", "i", "v", ">" >>

HtmlScenarioStated ==
    << "<", "d", "i", "v", ">", NL, "<", "p", ">", "h", "i", "<",
       "/", "p", ">", "<", "/", "d", "i", "v", ">" >>

LuaScenario ==
    << "p", "r", "i", "n", "t", "(", "1", ")", " ", "-", "-", " ",
       "h", "i", NL, "-", "-", "[", "[", " ", "l", "o", "n", "g",
       NL, "b", "l", "o", "c", "k", " ", "]", "]", NL, "p", "r",
       "i", "n", "t", "(", "2", ")" >>

LuaScenarioStated ==
    << "p", "r", "i", "n", "t", "(", "1", ")", NL, NL, "p", "r",
       "i", "n", "t", "(", "2", ")" >>

LuaScenarioActual ==
    << "p", "r", "i", "n", "t", "(", "1", ")", " ", NL, NL, "p",
       "r", "i", "n", "t", "(", "2", ")" >>

NameFooPY ==
    << "f", "o", "o", ".", "P", "Y" >>

NameUnknownExt ==
    << "f", "o", "o", ".", "u", "n", "k", "n", "o", "w", "n", "e",
       "x", "t" >>

NameNoExt ==
    << "n", "o", "e", "x", "t" >>

NameDirDot ==
    << "d", ".", "l", "u", "a", "/", "r", "e", "a", "d", "m", "e" >>

NameDotFile ==
    << ".", "l", "u", "a" >>

NameTwoExt ==
    << "a", ".", "t", "a", "r", ".", "S", "Q", "L" >>

Languages == DOMAIN patterns

\* identifiers that are not keys of the pattern table
UnknownLanguages == {"python"}

Alternatives(lang) ==
    IF "multi_line" \in DOMAIN patterns[lang]
    THEN {patterns[lang].multi_line[k] : k \in DOMAIN patterns[lang].multi_line}
    ELSE {}

SingleTokens(lang) ==
    IF "single_line" \in DOMAIN patterns[lang]
    THEN {patterns[lang].single_line}
    ELSE {}

OpenTokens(lang) == {alt.open : alt \in Alternatives(lang)}
CloseTokens(lang) == {alt.close : alt \in Alternatives(lang)}
Tokens(lang) == SingleTokens(lang) \cup OpenTokens(lang) \cup CloseTokens(lang)

\* the single characters of the texts: each character of a token on its own
\* (content that may run into a token), a blank and a newline
CharPieces(lang) ==
    UNION {{<<tok[k]>> : k \in 1..Len(tok)} : tok \in Tokens(lang)}
    \cup {<<" ">>, <<NL>>}

\* the pieces texts are made of: the delimiter tokens of the language and
\* the single characters
Pieces(lang) == Tokens(lang) \cup CharPieces(lang)

PieceSeqs(lang, n) == UNION {[1..k -> Pieces(lang)] : k \in 0..n}

\* every text of at most MaxPieces pieces
ShortTexts(lang) == {Flatten(ps) : ps \in PieceSeqs(lang, MaxPieces)}

\* the ways to cut k characters into five consecutive groups
Cuts(k) ==
    {c \in [1..4 -> 0..k] : c[1] <= c[2] /\ c[2] <= c[3] /\ c[3] <= c[4]}

\* two terminated block comments with at most MaxExtra characters placed in
\* front of, inside, between and behind them
TwoBlockTexts(lang) ==
    UNION {
        {Flatten(SubSeq(ps, 1, c[1])) \o a1.open
            \o Flatten(SubSeq(ps, c[1] + 1, c[2])) \o a1.close
            \o Flatten(SubSeq(ps, c[2] + 1, c[3])) \o a2.open
            \o Flatten(SubSeq(ps, c[3] + 1, c[4])) \o a2.close
            \o Flatten(SubSeq(ps, c[4] + 1, k)) :
            ps \in [1..k -> CharPieces(lang)], c \in Cuts(k),
            a1 \in Alternatives(lang), a2 \in Alternatives(lang)} :
        k \in 0..MaxExtra}

\* a block comment that fills a line of its own, between two lines of code
BlockLineExample(alt) ==
    <<"a", NL>> \o alt.open \o <<" ", "c", " ">> \o alt.close \o <<NL, "b">>

\* a line that is nothing but a single-line comment and a whitespace-only
\* line, between two lines of code
CommentLineExample(tok) ==
    <<"a", NL, " ">> \o tok \o <<" ", "c", NL, " ", NL, "b">>

\* a text without any comment token, with blank runs and outer whitespace
BlankRunExample ==
    << " ", "a", NL, NL, NL, NL, "\t", "b", " ", NL >>

Examples(lang) ==
    {BlankRunExample}
    \cup {BlockLineExample(alt) : alt \in Alternatives(lang)}
    \cup {CommentLineExample(tok) : tok \in SingleTokens(lang)}
    \cup (CASE lang = PY   -> {PythonScenario}
            [] lang = CFAM -> {CScenario}
            [] lang = HTML -> {HtmlScenario}
            [] lang = LUA  -> {LuaScenario}
            [] OTHER       -> {})

Inputs(lang) ==
    IF lang \in Languages
    THEN ShortTexts(lang) \cup TwoBlockTexts(lang) \cup Examples(lang)
    ELSE ShortTexts(PY) \cup {PythonScenario}

NameChars == {".", "/", "p", "y", "P", "Y", "c"}

Upper(s) ==
    [i \in 1..Len(s) |->
        IF \E k \in DOMAIN LowerChars : LowerChars[k] = s[i]
        THEN UpperChars[CHOOSE k \in DOMAIN LowerChars : LowerChars[k] = s[i]]
        ELSE s[i]]

\* every name of at most MaxName characters, every mapped extension in lower
\* and in upper case behind a stem, and the names the specification quotes
Filenames ==
    UNION {[1..k -> NameChars] : k \in 0..MaxName}
    \cup {<<"m">> \o e : e \in DOMAIN extension_map}
    \cup {<<"M">> \o Upper(e) : e \in DOMAIN extension_map}
    \cup {NameFooPY, NameUnknownExt, NameNoExt, NameDirDot, NameDotFile, NameTwoExt}

-----------------------------------------------------------------------------
(* The callers: one call of remove_comments or of                          *)
(* get_language_from_filename on an input drawn from the bounded sets      *)

Init ==
    /\ result = <<>>
    /\ detected = ""
    /\ \/ /\ pc = "call_remove_comments"
          /\ language \in Languages \cup UnknownLanguages
          /\ code \in Inputs(language)
          /\ filename = <<>>
       \/ /\ pc = "call_get_language"
          /\ filename \in Filenames
          /\ language = ""
          /\ code = <<>>

RemoveComments ==
    /\ pc = "call_remove_comments"
    /\ result' = remove_comments(code, language)
    /\ pc' = "removed"
    /\ UNCHANGED <<code, language, filename, detected>>

GetLanguageFromFilename ==
    /\ pc = "call_get_language"
    /\ detected' = get_language_from_filename(filename)
    /\ pc' = "detected"
    /\ UNCHANGED <<code, language, filename, result>>

Next == RemoveComments \/ GetLanguageFromFilename

Spec == Init /\ [][Next]_vars

-----------------------------------------------------------------------------
(* Vocabulary of the properties                                            *)

Called == pc = "removed" /\ language \in Languages

HasSingleLine(lang) == lang \in Languages /\ "single_line" \in DOMAIN patterns[lang]

NoOccurrence(s, toks) == \A tok \in toks : Occurrences(s, tok) = {}

\* no comment token of the language occurs in s
TokenFree(s, lang) == NoOccurrence(s, Tokens(lang))

\* no block-comment delimiter of the language occurs in s
NoBlockTokens(s, lang) == NoOccurrence(s, OpenTokens(lang) \cup CloseTokens(lang))

Blank(s) == \A i \in 1..Len(s) : s[i] \in Whitespace

\* the elements of s at the positions in keep, in order
RECURSIVE Pick(_, _, _)
Pick(s, keep, i) ==
    IF i > Len(s) THEN <<>>
    ELSE IF i \in keep THEN <<s[i]>> \o Pick(s, keep, i + 1)
    ELSE Pick(s, keep, i + 1)

\* a newline is deleted exactly when two newlines stand right before it
CollapseBlankRuns(s) ==
    Pick(s, {i \in 1..Len(s) :
                ~(i >= 3 /\ s[i] = NL /\ s[i - 1] = NL /\ s[i - 2] = NL)}, 1)

\* the text from its first to its last character that is not whitespace
Trim(s) ==
    LET solid == {i \in 1..Len(s) : s[i] \notin Whitespace}
    IN  IF solid = {} THEN <<>> ELSE SubSeq(s, Min(solid), Max(solid))

DeleteAt(s, i) == SubSeq(s, 1, i - 1) \o SubSeq(s, i + 1, Len(s))

\* the part of a line in front of its first single-line token
BeforeToken(line, tok) ==
    IF Occurrences(line, tok) = {} THEN line
    ELSE SubSeq(line, 1, (CHOOSE k \in Occurrences(line, tok) :
                             \A k2 \in Occurrences(line, tok) : k <= k2) - 1)

\* the line is whitespace (possibly none) followed by a single-line comment
CommentOnly(line, tok) ==
    \E k \in Occurrences(line, tok) : \A j \in 1..(k - 1) : line[j] \in Whitespace

\* the line is exactly one block comment
WholeLineBlock(line, lang) ==
    \E alt \in Alternatives(lang) :
        /\ StartsWithAt(line, alt.open, 1)
        /\ Len(line) >= Len(alt.open) + Len(alt.close)
        /\ StartsWithAt(line, alt.close, Len(line) - Len(alt.close) + 1)
        /\ \A q \in (Len(alt.open) + 1)..(Len(line) - Len(alt.close)) :
               ~StartsWithAt(line, alt.close, q)

HasRun3(s) == \E p \in 1..(Len(s) - 2) : s[p] = NL /\ s[p + 1] = NL /\ s[p + 2] = NL

-----------------------------------------------------------------------------
(* C1 *)

\* C1: for a registered language and a text that holds none of its comment
\* tokens, remove_comments returns the text with every run of three or more
\* newlines collapsed to two and then trimmed, and changes nothing else.
C1_TokenFreeText ==
    (Called /\ TokenFree(code, language))
        => result = Trim(CollapseBlankRuns(code))

\* a token-free text with a blank run between two lines of content and
\* whitespace at its ends has been processed
C1_Witness ==
    /\ Called /\ TokenFree(code, language)
    /\ result # code
    /\ HasRun3(Trim(code))
    /\ Len(SplitLines(result)) >= 3

-----------------------------------------------------------------------------
(* C2 *)

\* the line is code, then whitespace, then a single-line comment
TrailingComment(line, tok) ==
    /\ Occurrences(line, tok) # {}
    /\ Len(BeforeToken(line, tok)) >= 2
    /\ line[1] \notin Whitespace
    /\ line[Len(BeforeToken(line, tok))] \in Whitespace

\* C2 as stated: the scenario outputs of the specification, in which no
\* whitespace is left behind the code of a line whose comment was stripped.
C2_ScenariosAsStated ==
    pc = "removed" =>
        /\ (language = PY /\ code = PythonScenario) => result = PythonScenarioStated
        /\ (language = CFAM /\ code = CScenario) => result = CScenarioStated
        /\ (language = LUA /\ code = LuaScenario) => result = LuaScenarioStated

\* C2 as amended: the whitespace between the code and the comment token stays
\* on the line, so the scenarios yield "x = 1  \n\ndef f():\n    pass",
\* "int x = 1; \n\nint y = 2;" and "print(1) \n\nprint(2)"; in general a first
\* line of code, whitespace and trailing comment, followed by a line with
\* content, opens the output as the code with that whitespace.
C2_ScenariosKeepWhitespace ==
    pc = "removed" =>
        /\ (language = PY /\ code = PythonScenario) => result = PythonScenarioActual
        /\ (language = CFAM /\ code = CScenario) => result = CScenarioActual
        /\ (language = LUA /\ code = LuaScenario) => result = LuaScenarioActual
        /\ (language = HTML /\ code = HtmlScenario) => result = HtmlScenarioStated
        /\ (HasSingleLine(language) /\ NoBlockTokens(code, language)) =>
              LET tok == patterns[language].single_line
                  lines == SplitLines(code)
                  kept == BeforeToken(lines[1], tok)
              IN  (/\ TrailingComment(lines[1], tok)
                   /\ \E i \in 2..Len(lines) : ~Blank(BeforeToken(lines[i], tok)))
                  => SubSeq(result, 1, Len(kept) + 1) = kept \o <<NL>>

\* one of the three scenarios has been processed
C2_Witness ==
    /\ pc = "removed"
    /\ \/ language = PY /\ code = PythonScenario
       \/ language = CFAM /\ code = CScenario
       \/ language = LUA /\ code = LuaScenario
    /\ TrailingComment(SplitLines(code)[1], patterns[language].single_line)
    /\ result # <<>>

-----------------------------------------------------------------------------
(* C3 *)

\* the lines that outlive the loop, described line by line: every line that
\* is not a comment-only line, cut in front of its comment
RECURSIVE Survivors(_, _, _)
Survivors(lines, tok, i) ==
    IF i > Len(lines) THEN <<>>
    ELSE IF CommentOnly(lines[i], tok) THEN Survivors(lines, tok, i + 1)
    ELSE <<BeforeToken(lines[i], tok)>> \o Survivors(lines, tok, i + 1)

\* C3 as stated: a non-blank input line that is entirely a comment, be it a
\* single-line comment or a block comment filling the line, contributes no
\* line: the output is that of the text without the line.  (The rest of the
\* text holds no block delimiter, so that the line is a comment of its own.)
C3_CommentLinesContributeNothing ==
    Called =>
        LET lines == SplitLines(code)
            whole(i) ==
                \/ /\ HasSingleLine(language)
                   /\ CommentOnly(lines[i], patterns[language].single_line)
                   /\ NoBlockTokens(code, language)
                \/ /\ WholeLineBlock(lines[i], language)
                   /\ NoBlockTokens(JoinLines(DeleteAt(lines, i)), language)
        IN  \A i \in 1..Len(lines) :
                (Len(lines) >= 2 /\ whole(i))
                    => result = remove_comments(JoinLines(DeleteAt(lines, i)), language)

\* C3 as amended: only single-line comments make a line disappear.  In a
\* language with a single-line pattern the lines of the block-stripped text
\* that are whitespace followed by a single-line comment are dropped, every
\* other line (the whitespace-only ones included) is kept, cut in front of
\* its comment; a line that a block comment filled is left behind empty by
\* the block removal and is kept as a blank line; a language without
\* single-line pattern drops no line.
C3_OnlySingleLineCommentsDropLines ==
    Called =>
        LET stripped == MultiLineStep(code, language)
            lines == SplitLines(stripped)
        IN  IF HasSingleLine(language)
            THEN LET tok == patterns[language].single_line
                     kept == Survivors(lines, tok, 1)
                 IN  /\ result = Trim(CollapseBlankRuns(JoinLines(kept)))
                     /\ Len(kept) = Len(lines)
                            - Cardinality({i \in 1..Len(lines) : CommentOnly(lines[i], tok)})
                     /\ \A i \in 1..Len(lines) :
                            CommentOnly(lines[i], tok) =>
                                result = Finish(LineStep(JoinLines(DeleteAt(lines, i)),
                                                         language))
            ELSE result = Trim(CollapseBlankRuns(stripped))

\* a comment-only line between two lines of code has been dropped, next to a
\* whitespace-only line that was kept
C3_Witness ==
    /\ Called /\ HasSingleLine(language)
    /\ LET lines == SplitLines(MultiLineStep(code, language))
           tok == patterns[language].single_line
       IN  /\ \E i \in 1..Len(lines) : CommentOnly(lines[i], tok)
           /\ \E i \in 1..Len(lines) : Blank(lines[i])
           /\ Len(SplitLines(result)) >= 2
           /\ Len(SplitLines(result)) < Len(lines)

-----------------------------------------------------------------------------
(* C4 *)

\* C4: whatever the text, the output of remove_comments for a registered
\* language holds no run of three or more newlines, so at most one empty
\* line stands between two lines of content.
C4_NoTripleNewline == Called => ~HasRun3(result)

\* a run of three newlines between content, present in the input or made by
\* dropping comment-only lines, has been collapsed
C4_Witness ==
    /\ Called
    /\ HasRun3(Trim(LineStep(MultiLineStep(code, language), language)))
    /\ Len(SplitLines(result)) >= 3

-----------------------------------------------------------------------------
(* C5 *)

\* C5: for an identifier that is no key of the pattern table remove_comments
\* returns the text as it was given: nothing removed, collapsed or trimmed.
C5_UnknownLanguageUnchanged ==
    (pc = "removed" /\ language \notin Languages) => result = code

\* a text that every registered step would have changed went through
\* untouched under an unknown identifier
C5_Witness ==
    /\ pc = "removed" /\ language \notin Languages
    /\ Occurrences(code, <<"#">>) # {}
    /\ Trim(code) # code
    /\ result = code

-----------------------------------------------------------------------------
(* C6 *)

\* C6: for a language with a single-line pattern and a text without block
\* delimiters of that language, processing the output again changes nothing.
C6_Idempotent ==
    (Called /\ HasSingleLine(language) /\ NoBlockTokens(code, language))
        => remove_comments(result, language) = result

\* a text with a single-line comment and no block delimiter was changed by
\* the first pass
C6_Witness ==
    /\ Called /\ HasSingleLine(language) /\ NoBlockTokens(code, language)
    /\ Occurrences(code, patterns[language].single_line) # {}
    /\ result # code
    /\ result # <<>>

-----------------------------------------------------------------------------
(* C7 *)

\* where the block-comment start tokens of the language begin in s
OpenStarts(s, lang) == UNION {Occurrences(s, o) : o \in OpenTokens(lang)}

\* s holds a start token, and no end token of the language begins behind a
\* start token (the tokens of one language's alternatives are equally long)
Unterminated(s, lang) ==
    /\ OpenStarts(s, lang) # {}
    /\ \A o \in OpenTokens(lang) : \A p \in Occurrences(s, o) :
           \A c \in CloseTokens(lang) : \A q \in Occurrences(s, c) :
               q < p + Len(o)

\* C7 as stated: an unterminated block-comment start token takes everything
\* from the token to the end of the text with it.
C7_UnterminatedRemovedToEnd ==
    (Called /\ Unterminated(code, language))
        => result = Finish(LineStep(SubSeq(code, 1, Min(OpenStarts(code, language)) - 1),
                                    language))

\* C7 as amended: when no end token follows a start token, remove_comments
\* still returns a text, and the block removal deletes nothing: the start
\* token and what follows it go on to the single-line removal, the blank-run
\* collapsing and the trimming like any other text.
C7_UnterminatedBlockKept ==
    (Called /\ Unterminated(code, language))
        => /\ MultiLineStep(code, language) = code
           /\ result = Finish(LineStep(code, language))

\* a text with content behind an unterminated start token has been processed
\* and the token is still in the output
C7_Witness ==
    /\ Called /\ Unterminated(code, language)
    /\ Len(code) > Max(OpenStarts(code, language)) + 3
    /\ OpenStarts(result, language) # {}

-----------------------------------------------------------------------------
(* C8 *)

\* where the last extension of a file name starts: at a dot with neither dot
\* nor "/" behind it and, in front of it in the same path component, some
\* character that is not a dot
ExtensionStarts(name) ==
    {d \in 1..Len(name) :
        /\ name[d] = "."
        /\ \A j \in (d + 1)..Len(name) : name[j] \notin {".", "/"}
        /\ \E i \in 1..(d - 1) :
               /\ name[i] # "."
               /\ \A j \in i..d : name[j] # "/"}

\* key is ext written in lower case
SameIgnoringCase(ext, key) ==
    /\ Len(ext) = Len(key)
    /\ \A i \in 1..Len(ext) :
           \/ ext[i] = key[i]
           \/ \E k \in DOMAIN UpperChars :
                  UpperChars[k] = ext[i] /\ LowerChars[k] = key[i]

\* C8: get_language_from_filename returns, for every file name, the language
\* mapped to the last extension of the name compared without regard to case,
\* and "Python" when there is no extension or none that is mapped; what it
\* returns is always a key of the pattern table.
C8_LanguageOfExtension ==
    pc = "detected" =>
        /\ detected \in Languages
        /\ \A d \in ExtensionStarts(filename) :
               \A key \in DOMAIN extension_map :
                   SameIgnoringCase(SubSeq(filename, d, Len(filename)), key)
                       => detected = extension_map[key]
        /\ (\A d \in ExtensionStarts(filename) :
               \A key \in DOMAIN extension_map :
                   ~SameIgnoringCase(SubSeq(filename, d, Len(filename)), key))
               => detected = PY
        /\ filename \in {NameFooPY, NameUnknownExt, NameNoExt} => detected = PY

\* a name with an upper-case extension was mapped to a language other than
\* the default
C8_Witness ==
    /\ pc = "detected"
    /\ detected # PY
    /\ \E d \in ExtensionStarts(filename) :
           /\ SubSeq(filename, d, Len(filename)) \notin DOMAIN extension_map
           /\ \E key \in DOMAIN extension_map :
                  SameIgnoringCase(SubSeq(filename, d, Len(filename)), key)

-----------------------------------------------------------------------------
(* C9 *)

\* no start token of the language begins at a position from lo to hi
NoOpenIn(s, lang, lo, hi) == \A p \in lo..hi : p \notin OpenStarts(s, lang)

\* s[i..j-1] opens a block comment of alternative alt at i whose first end
\* token starts at j
BlockAt(s, alt, i, j) ==
    /\ StartsWithAt(s, alt.open, i)
    /\ j >= i + Len(alt.open)
    /\ StartsWithAt(s, alt.close, j)
    /\ \A q \in (i + Len(alt.open))..(j - 1) : ~StartsWithAt(s, alt.close, q)

\* where the first end token of a block comment of alternative alt that
\* opens at i starts
Closers(s, alt, i) == {j \in Occurrences(s, alt.close) : BlockAt(s, alt, i, j)}

\* the start tokens of alt from position lo on that no other start token
\* precedes from lo on
FirstOpens(s, lang, alt, lo) ==
    {i \in Occurrences(s, alt.open) : i >= lo /\ NoOpenIn(s, lang, lo, i - 1)}

\* C9: of two terminated block comments separated by text, each is deleted
\* up to its own first end token, also across lines, and the block removal
\* keeps the text in front of, between and behind them as it is.  (The text
\* reads as text, block comment, text, block comment, text, and no start
\* token begins inside the three texts.)
C9_BlocksRemovedTextKept ==
    Called =>
        \A a1 \in Alternatives(language) :
        \A i1 \in FirstOpens(code, language, a1, 1) :
        \A j1 \in Closers(code, a1, i1) :
        \A a2 \in Alternatives(language) :
        \A i2 \in FirstOpens(code, language, a2, j1 + Len(a1.close)) :
        \A j2 \in Closers(code, a2, i2) :
            NoOpenIn(code, language, j2 + Len(a2.close), Len(code))
                => MultiLineStep(code, language) =
                      SubSeq(code, 1, i1 - 1)
                      \o SubSeq(code, j1 + Len(a1.close), i2 - 1)
                      \o SubSeq(code, j2 + Len(a2.close), Len(code))

\* two block comments, one of them spanning lines, with content between them
\* have been removed
C9_Witness ==
    /\ Called
    /\ \E a1 \in Alternatives(language) :
       \E i1 \in FirstOpens(code, language, a1, 1) :
       \E j1 \in Closers(code, a1, i1) :
       \E a2 \in Alternatives(language) :
       \E i2 \in FirstOpens(code, language, a2, j1 + Len(a1.close)) :
       \E j2 \in Closers(code, a2, i2) :
           /\ NoOpenIn(code, language, j2 + Len(a2.close), Len(code))
           /\ ~Blank(SubSeq(code, j1 + Len(a1.close), i2 - 1))
           /\ \E q \in i1..j1 : code[q] = NL
    /\ result # <<>>

-----------------------------------------------------------------------------
(* C10 *)

\* C10: for a language with a single-line pattern the output of
\* remove_comments holds no occurrence of the single-line comment token,
\* whatever the text.
C10_NoSingleLineTokenLeft ==
    (Called /\ HasSingleLine(language))
        => Occurrences(result, patterns[language].single_line) = {}

\* a text with a block comment and a single-line comment has been processed
\* and left content behind
C10_Witness ==
    /\ Called /\ HasSingleLine(language)
    /\ Occurrences(code, patterns[language].single_line) # {}
    /\ MultiLineStep(code, language) # code
    /\ result # <<>>

====
